---- MODULE Spec2Model ----
(***************************************************************************)
(* SLML canonical validator v0.1 (src/slml_validator.py).                  *)
(*                                                                         *)
(* validate(manifest) is modelled as a state machine that runs one stage   *)
(* of the pipeline per step.  A manifest is a decoded document: a tree of  *)
(* mappings, lists and scalars, encoded below as tagged records.           *)
(*                                                                         *)
(* Numbers are fixed-point: Num(n) stands for the number n / Scale.  The    *)
(* inputs are small integers over Scale, for which the validator's         *)
(* floating-point sums, products, quotients and comparisons with 1.5 and   *)
(* 0.15 give the same outcome as exact rational arithmetic (a quotient of  *)
(* small integers differs from 3/2 or 3/20 by far more than one ulp, or    *)
(* rounds to the same double as the literal).                              *)
(***************************************************************************)
EXTENDS Integers, Sequences, FiniteSets, TLC

VARIABLES m, pc, ran, status, error_code, entity_index, totals,
          repo, tree, baseline, outcome

vars == <<m, pc, ran, status, error_code, entity_index, totals, repo, tree, baseline, outcome>>

\* the state of the release tools (src/tools): the git repository, the version
\* directory, its files when the hash list was generated, and what a run of a
\* tool gave
toolVars == <<repo, tree, baseline, outcome>>
\* the state of validate
validatorVars == <<m, ran, status, error_code, entity_index, totals>>

----------------------------------------------------------------------------
(* Bounds of the model *)

\* fixed-point resolution: Num(n) is n / Scale
Scale == 4
\* how many defects are injected at once into the baseline manifest
MaxDefects == 2
\* parseable timestamps are the instants "T1" .. "T<MaxInstant>"
MaxInstant == 3
\* how many identifiers a declared entity list holds at most
MaxDeclared == 3
\* how many git operations precede a run of the immutability check
MaxRepoSteps == 4

----------------------------------------------------------------------------
(* Normative constants, src/slml_validator.py:24-26, as fractions *)

EPSILON_DEN == 1000000000
SYMMETRY_TOLERANCE_NUM == 15
SYMMETRY_TOLERANCE_DEN == 100
CORRUPTION_RATIO_NUM == 3
CORRUPTION_RATIO_DEN == 2

CANONICAL_ROLES == {"DESIGNER", "USER", "BENEFICIARY", "COMPONENT", "PRODUCT", "SYSTEM"}

ALLOWED_OBLIGATION_DIRECTIONS_Extra ==
    { <<"DESIGNER", "SYSTEM">>, <<"SYSTEM", "COMPONENT">>, <<"SYSTEM", "PRODUCT">>,
      <<"COMPONENT", "PRODUCT">>, <<"PRODUCT", "USER">>, <<"DESIGNER", "USER">> }

ALLOWED_OBLIGATION_DIRECTIONS ==
    { <<"DESIGNER", "SYSTEM">>, <<"SYSTEM", "COMPONENT">>, <<"SYSTEM", "PRODUCT">>,
      <<"COMPONENT", "PRODUCT">>, <<"PRODUCT", "USER">> }

R000_PARSE_FAILURE == "R000_PARSE_FAILURE"
R001_USER_BENEFICIARY_MISMATCH == "R001_USER_BENEFICIARY_MISMATCH"
R002_OWNERSHIP_NOT_EXPLICIT == "R002_OWNERSHIP_NOT_EXPLICIT"
R003_CONTROL_DIRECTION_INVALID == "R003_CONTROL_DIRECTION_INVALID"
R004_CONSENT_NOT_EXPLICIT == "R004_CONSENT_NOT_EXPLICIT"
R005_IMPLIED_CONSENT_PRESENT == "R005_IMPLIED_CONSENT_PRESENT"
R006_RENEGOTIATION_DISABLED == "R006_RENEGOTIATION_DISABLED"
R007_WEIGHTS_INVALID == "R007_WEIGHTS_INVALID"
R008_BURDEN_MISSING == "R008_BURDEN_MISSING"
R009_INCONVENIENCE_RATIO_FAIL == "R009_INCONVENIENCE_RATIO_FAIL"
R010_SYMMETRY_TOLERANCE_FAIL == "R010_SYMMETRY_TOLERANCE_FAIL"
R011_OBLIGATION_DIRECTION_INVALID == "R011_OBLIGATION_DIRECTION_INVALID"
R012_CONSENT_RULES_VIOLATED == "R012_CONSENT_RULES_VIOLATED"
R013_EXPIRY_MISSING == "R013_EXPIRY_MISSING"
R014_USER_COERCIVE_OBLIGATION == "R014_USER_COERCIVE_OBLIGATION"
R017_ROLE_INTEGRITY_FAIL == "R017_ROLE_INTEGRITY_FAIL"
R018_CONSENT_EXPIRY_MISSING == "R018_CONSENT_EXPIRY_MISSING"

----------------------------------------------------------------------------
(* Decoded documents: Python values as tagged records *)

Str(s) == [ty |-> "str", s |-> s]
Num(n) == [ty |-> "num", n |-> n]
Bool(b) == [ty |-> "bool", b |-> b]
None == [ty |-> "none"]
List(q) == [ty |-> "list", items |-> q]
Dict(f) == [ty |-> "dict", d |-> f]

EmptyMap == [k \in {} |-> None]

IsDict(v) == v.ty = "dict"
IsList(v) == v.ty = "list"
IsStr(v) == v.ty = "str"
\* isinstance(v, (int, float)): bool is a subclass of int
IsNumber(v) == v.ty \in {"num", "bool"}
\* the fixed-point value of a number (True is 1, False is 0)
NumVal(v) == IF v.ty = "bool" THEN (IF v.b THEN Scale ELSE 0) ELSE v.n
\* k in d
Has(v, k) == k \in DOMAIN v.d
\* d.get(k)
Get(v, k) == IF Has(v, k) THEN v.d[k] ELSE None
\* bool(v)
Truthy(v) ==
    CASE v.ty = "none" -> FALSE
      [] v.ty = "bool" -> v.b
      [] v.ty = "num" -> v.n # 0
      [] v.ty = "str" -> v.s # ""
      [] v.ty = "list" -> Len(v.items) > 0
      [] v.ty = "dict" -> DOMAIN v.d # {}
\* hash(v) succeeds: lists and mappings are unhashable
Hashable(v) == v.ty \notin {"list", "dict"}
\* v is True / v is False
IsTrue(v) == v.ty = "bool" /\ v.b
IsFalse(v) == v.ty = "bool" /\ ~v.b
\* "." in k, over the keys documents of the model use
HasDot(k) == k \in {"inconvenience.weights", "system.name"}

Abs(x) == IF x < 0 THEN -x ELSE x

\* what a stage hands back: (True, ""), (False, code), or an exception that
\* propagates out of validate
Pass == [kind |-> "ok", err |-> ""]
Fail(code) == [kind |-> "fail", err |-> code]
Raise == [kind |-> "raise", err |-> ""]

----------------------------------------------------------------------------
(* Step 1: strict parse *)

strict_parse_manifest(mf) ==
    IF ~IsDict(mf) THEN Fail(R000_PARSE_FAILURE)
    ELSE IF \E k \in DOMAIN mf.d : HasDot(k) THEN Fail(R000_PARSE_FAILURE)
    ELSE IF ~({"entities", "system", "ownership", "consent", "inconvenience", "obligations"}
                \subseteq DOMAIN mf.d)
         THEN Fail(R000_PARSE_FAILURE)
    ELSE IF ~IsList(Get(mf, "entities")) THEN Fail(R000_PARSE_FAILURE)
    ELSE IF ~IsList(Get(mf, "obligations")) THEN Fail(R000_PARSE_FAILURE)
    ELSE IF ~IsDict(Get(mf, "system")) THEN Fail(R000_PARSE_FAILURE)
    ELSE IF ~IsDict(Get(mf, "ownership")) THEN Fail(R000_PARSE_FAILURE)
    ELSE IF ~IsDict(Get(mf, "consent")) THEN Fail(R000_PARSE_FAILURE)
    ELSE IF ~IsDict(Get(mf, "inconvenience")) THEN Fail(R000_PARSE_FAILURE)
    ELSE Pass

(* Step 2: schema completeness *)

strict_schema_completeness(mf) ==
    LET system == mf.d["system"]
        ownership == mf.d["ownership"]
        consent == mf.d["consent"]
        inc == mf.d["inconvenience"]
    IN  IF ~Has(system, "declared_user_entities") \/ ~Has(system, "declared_beneficiary_entities")
        THEN Fail(R000_PARSE_FAILURE)
        ELSE IF ~IsList(system.d["declared_user_entities"])
                \/ ~IsList(system.d["declared_beneficiary_entities"])
        THEN Fail(R000_PARSE_FAILURE)
        ELSE IF ~Has(ownership, "ownership_explicit") \/ ~Has(ownership, "control_direction")
        THEN Fail(R000_PARSE_FAILURE)
        ELSE IF ~Has(consent, "consent_explicit") \/ ~Has(consent, "implied_consent_accepted")
                \/ ~Has(consent, "renegotiation_on_change")
        THEN Fail(R000_PARSE_FAILURE)
        ELSE IF ~Has(consent, "consent_expires_at") \/ ~Truthy(consent.d["consent_expires_at"])
        THEN Fail(R018_CONSENT_EXPIRY_MISSING)
        ELSE IF ~Has(inc, "model") \/ ~Has(inc, "weights") \/ ~Has(inc, "expected")
        THEN Fail(R000_PARSE_FAILURE)
        ELSE IF ~IsDict(inc.d["model"]) \/ ~IsDict(inc.d["weights"]) \/ ~IsList(inc.d["expected"])
        THEN Fail(R000_PARSE_FAILURE)
        ELSE IF ~Has(inc.d["model"], "dimensions")
                \/ ~IsList(inc.d["model"].d["dimensions"])
                \/ ~Truthy(inc.d["model"].d["dimensions"])
        THEN Fail(R000_PARSE_FAILURE)
        ELSE Pass

(* Step 3: role integrity and the entity index (id -> role) *)

RECURSIVE build_entity_index_from(_, _, _)
build_entity_index_from(entities, i, index) ==
    IF i > Len(entities) THEN [kind |-> "ok", err |-> "", index |-> index]
    ELSE LET e == entities[i]
             bad == [kind |-> "fail", err |-> R017_ROLE_INTEGRITY_FAIL, index |-> EmptyMap]
         IN  IF ~IsDict(e) THEN bad
             ELSE IF ~Has(e, "id") \/ ~Has(e, "role") THEN bad
             ELSE LET entity_id == e.d["id"]
                      role == e.d["role"]
                  IN  IF ~IsStr(entity_id) \/ ~Truthy(entity_id) THEN bad
                      \* role not in CANONICAL_ROLES hashes role: TypeError when unhashable
                      ELSE IF ~Hashable(role)
                           THEN [kind |-> "raise", err |-> "", index |-> EmptyMap]
                      ELSE IF ~(IsStr(role) /\ role.s \in CANONICAL_ROLES) THEN bad
                      ELSE IF entity_id.s \in DOMAIN index THEN bad
                      ELSE build_entity_index_from(entities, i + 1,
                                                   index @@ (entity_id.s :> role.s))

build_entity_index(mf) == build_entity_index_from(mf.d["entities"].items, 1, EmptyMap)

(* Step 3b: referential integrity *)

RECURSIVE declared_exist(_, _, _)
declared_exist(ids, i, index) ==
    IF i > Len(ids) THEN TRUE
    ELSE IF ~IsStr(ids[i]) \/ ids[i].s \notin DOMAIN index THEN FALSE
    ELSE declared_exist(ids, i + 1, index)

RECURSIVE obligation_endpoints(_, _, _)
obligation_endpoints(obs, i, index) ==
    IF i > Len(obs) THEN Pass
    ELSE LET o == obs[i]
         IN  IF ~IsDict(o) THEN Fail(R000_PARSE_FAILURE)
             ELSE IF ~Has(o, "from") \/ ~Has(o, "to") THEN Fail(R000_PARSE_FAILURE)
             ELSE IF ~IsStr(o.d["from"]) \/ ~IsStr(o.d["to"]) THEN Fail(R000_PARSE_FAILURE)
             ELSE IF o.d["from"].s \notin DOMAIN index \/ o.d["to"].s \notin DOMAIN index
                  THEN Fail(R017_ROLE_INTEGRITY_FAIL)
             ELSE obligation_endpoints(obs, i + 1, index)

RECURSIVE burden_entities(_, _, _)
burden_entities(burdens, i, index) ==
    IF i > Len(burdens) THEN Pass
    ELSE LET b == burdens[i]
         IN  IF ~IsDict(b) THEN Fail(R000_PARSE_FAILURE)
             ELSE IF ~Has(b, "entity") THEN Fail(R000_PARSE_FAILURE)
             ELSE IF ~IsStr(b.d["entity"]) \/ b.d["entity"].s \notin DOMAIN index
                  THEN Fail(R017_ROLE_INTEGRITY_FAIL)
             ELSE burden_entities(burdens, i + 1, index)

strict_referential_integrity(mf, index) ==
    LET system == mf.d["system"]
    IN  IF ~declared_exist(system.d["declared_user_entities"].items, 1, index)
        THEN Fail(R017_ROLE_INTEGRITY_FAIL)
        ELSE IF ~declared_exist(system.d["declared_beneficiary_entities"].items, 1, index)
        THEN Fail(R017_ROLE_INTEGRITY_FAIL)
        ELSE LET r == obligation_endpoints(mf.d["obligations"].items, 1, index)
             IN  IF r.kind # "ok" THEN r
                 ELSE burden_entities(mf.d["inconvenience"].d["expected"].items, 1, index)

(* Step 4: user-beneficiary alignment; every declared id is a string here *)

IdSet(lst) == { lst.items[i].s : i \in 1..Len(lst.items) }

\* the two lists compared as lists
verify_user_beneficiary_alignment_as_lists(mf) ==
    LET system == mf.d["system"]
    IN  IF system.d["declared_user_entities"].items
              # system.d["declared_beneficiary_entities"].items
        THEN Fail(R001_USER_BENEFICIARY_MISMATCH)
        ELSE Pass

verify_user_beneficiary_alignment(mf) ==
    LET system == mf.d["system"]
        users == IdSet(system.d["declared_user_entities"])
        beneficiaries == IdSet(system.d["declared_beneficiary_entities"])
    IN  IF users # beneficiaries THEN Fail(R001_USER_BENEFICIARY_MISMATCH) ELSE Pass

(* Step 5: ownership *)

verify_ownership(mf) ==
    LET ownership == mf.d["ownership"]
    IN  IF ~IsTrue(Get(ownership, "ownership_explicit")) THEN Fail(R002_OWNERSHIP_NOT_EXPLICIT)
        ELSE IF Get(ownership, "control_direction") # Str("DESIGNER_TO_USER")
        THEN Fail(R003_CONTROL_DIRECTION_INVALID)
        ELSE Pass

(* Step 6: consent *)

verify_consent(mf) ==
    LET consent == mf.d["consent"]
    IN  IF ~IsTrue(Get(consent, "consent_explicit")) THEN Fail(R004_CONSENT_NOT_EXPLICIT)
        ELSE IF ~IsFalse(Get(consent, "implied_consent_accepted"))
        THEN Fail(R005_IMPLIED_CONSENT_PRESENT)
        ELSE IF ~IsTrue(Get(consent, "renegotiation_on_change"))
        THEN Fail(R006_RENEGOTIATION_DISABLED)
        ELSE IF ~Truthy(Get(consent, "consent_expires_at")) THEN Fail(R018_CONSENT_EXPIRY_MISSING)
        ELSE Pass

(* Step 7: inconvenience weights *)

RECURSIVE SumWeights(_, _)
SumWeights(weights, keys) ==
    IF keys = {} THEN 0
    ELSE LET k == CHOOSE x \in keys : TRUE
         IN  NumVal(weights.d[k]) + SumWeights(weights, keys \ {k})

verify_inconvenience_weights(mf) ==
    LET inc == mf.d["inconvenience"]
        weights == inc.d["weights"]
    IN  IF ~IsDict(weights) \/ ~Truthy(weights) THEN Fail(R007_WEIGHTS_INVALID)
        ELSE IF \E k \in DOMAIN weights.d :
                    ~IsNumber(weights.d[k]) \/ NumVal(weights.d[k]) < 0
        THEN Fail(R007_WEIGHTS_INVALID)
        \* abs(weight_sum - 1.0) > EPSILON, in units of 1 / Scale
        ELSE IF Abs(SumWeights(weights, DOMAIN weights.d) - Scale) > Scale \div EPSILON_DEN
        THEN Fail(R007_WEIGHTS_INVALID)
        ELSE LET dims == inc.d["model"].d["dimensions"].items
             IN  \* set(dims) hashes every dimension: TypeError when one is unhashable
                 IF \E i \in 1..Len(dims) : ~Hashable(dims[i]) THEN Raise
                 ELSE IF \/ \E k \in DOMAIN weights.d : \A i \in 1..Len(dims) : dims[i] # Str(k)
                         \/ \E i \in 1..Len(dims) : ~IsStr(dims[i]) \/ ~Has(weights, dims[i].s)
                 THEN Fail(R007_WEIGHTS_INVALID)
                 ELSE Pass

(* Step 8: inconvenience coverage; the dimensions are strings here *)

DimSet(mf) ==
    LET dims == mf.d["inconvenience"].d["model"].d["dimensions"].items
    IN  { dims[i].s : i \in 1..Len(dims) }

RECURSIVE coverage_from(_, _, _)
coverage_from(burdens, i, dims) ==
    IF i > Len(burdens) THEN Pass
    ELSE LET b == burdens[i]
         IN  IF ~IsDict(b) THEN Fail(R000_PARSE_FAILURE)
             ELSE IF ~Has(b, "entity") THEN Fail(R000_PARSE_FAILURE)
             ELSE IF (DOMAIN b.d) \ {"entity"} # dims THEN Fail(R008_BURDEN_MISSING)
             ELSE IF \E d \in dims : ~IsNumber(b.d[d]) THEN Fail(R008_BURDEN_MISSING)
             ELSE coverage_from(burdens, i + 1, dims)

strict_inconvenience_coverage(mf) ==
    LET burdens == mf.d["inconvenience"].d["expected"]
    IN  IF ~Truthy(burdens) THEN Fail(R008_BURDEN_MISSING)
        ELSE coverage_from(burdens.items, 1, DimSet(mf))

(* Step 9: inconvenience totals, in units of 1 / Scale^2 *)

RECURSIVE WeightedSum(_, _, _, _)
WeightedSum(weights, b, dims, i) ==
    IF i > Len(dims) THEN 0
    ELSE NumVal(weights.d[dims[i].s]) * NumVal(b.d[dims[i].s])
         + WeightedSum(weights, b, dims, i + 1)

RECURSIVE totals_from(_, _, _, _, _)
totals_from(burdens, i, weights, dims, acc) ==
    IF i > Len(burdens) THEN [kind |-> "ok", err |-> "", totals |-> acc]
    ELSE LET b == burdens[i]
         IN  \* a KeyError or a failed float() inside the try block
             IF \E j \in 1..Len(dims) :
                    \/ ~IsStr(dims[j])
                    \/ ~Has(weights, dims[j].s) \/ ~Has(b, dims[j].s)
                    \/ ~IsNumber(weights.d[dims[j].s]) \/ ~IsNumber(b.d[dims[j].s])
             THEN [kind |-> "fail", err |-> R008_BURDEN_MISSING, totals |-> EmptyMap]
             ELSE LET eid == b.d["entity"].s
                      total == WeightedSum(weights, b, dims, 1)
                  IN  totals_from(burdens, i + 1, weights, dims,
                                  [x \in (DOMAIN acc) \cup {eid} |->
                                      IF x = eid THEN total ELSE acc[x]])

compute_inconvenience_totals(mf) ==
    LET inc == mf.d["inconvenience"]
    IN  totals_from(inc.d["expected"].items, 1, inc.d["weights"],
                    inc.d["model"].d["dimensions"].items, EmptyMap)

(* Steps 10 and 11 share the means of the USER and BENEFICIARY totals *)

RoleIds(mf, role) ==
    LET entities == mf.d["entities"].items
    IN  { entities[i].d["id"].s : i \in { j \in 1..Len(entities) : entities[j].d["role"] = Str(role) } }

\* sum(totals.get(id, 0.0) for id in ids)
RECURSIVE SumTotals(_, _)
SumTotals(tot, ids) ==
    IF ids = {} THEN 0
    ELSE LET k == CHOOSE x \in ids : TRUE
         IN  (IF k \in DOMAIN tot THEN tot[k] ELSE 0) + SumTotals(tot, ids \ {k})

\* i_user and i_ben over the common denominator len(user_ids) * len(ben_ids):
\* i_user = IUser / (NU * NB), i_ben = IBen / (NU * NB), NU, NB > 0
IUser(mf, tot) == SumTotals(tot, RoleIds(mf, "USER")) * Cardinality(RoleIds(mf, "BENEFICIARY"))
IBen(mf, tot) == SumTotals(tot, RoleIds(mf, "BENEFICIARY")) * Cardinality(RoleIds(mf, "USER"))

\* the ratio of the summed totals of the two role sets instead of their means
check_corruption_ratio_of_sums(mf, tot) ==
    LET s_user == SumTotals(tot, RoleIds(mf, "USER"))
        s_ben == SumTotals(tot, RoleIds(mf, "BENEFICIARY"))
    IN  IF RoleIds(mf, "USER") = {} \/ RoleIds(mf, "BENEFICIARY") = {}
        THEN Fail(R009_INCONVENIENCE_RATIO_FAIL)
        ELSE IF s_ben = 0
        THEN (IF s_user > 0 THEN Fail(R009_INCONVENIENCE_RATIO_FAIL) ELSE Pass)
        ELSE IF (s_ben > 0 /\ CORRUPTION_RATIO_DEN * s_user > CORRUPTION_RATIO_NUM * s_ben)
                \/ (s_ben < 0 /\ CORRUPTION_RATIO_DEN * s_user < CORRUPTION_RATIO_NUM * s_ben)
        THEN Fail(R009_INCONVENIENCE_RATIO_FAIL)
        ELSE Pass

(* Step 10: corruption ratio *)

check_corruption_ratio(mf, tot) ==
    LET i_user == IUser(mf, tot)
        i_ben == IBen(mf, tot)
    IN  IF RoleIds(mf, "USER") = {} \/ RoleIds(mf, "BENEFICIARY") = {}
        THEN Fail(R009_INCONVENIENCE_RATIO_FAIL)
        ELSE IF i_ben = 0
        THEN (IF i_user > 0 THEN Fail(R009_INCONVENIENCE_RATIO_FAIL) ELSE Pass)
        \* (i_user / i_ben) > 1.5, cross-multiplied by the sign of i_ben
        ELSE IF (i_ben > 0 /\ CORRUPTION_RATIO_DEN * i_user > CORRUPTION_RATIO_NUM * i_ben)
                \/ (i_ben < 0 /\ CORRUPTION_RATIO_DEN * i_user < CORRUPTION_RATIO_NUM * i_ben)
        THEN Fail(R009_INCONVENIENCE_RATIO_FAIL)
        ELSE Pass

(* Step 11: symmetry tolerance *)

check_symmetry_tolerance(mf, tot) ==
    LET i_user == IUser(mf, tot)
        i_ben == IBen(mf, tot)
        max_inc == IF i_user >= i_ben THEN i_user ELSE i_ben
    IN  IF RoleIds(mf, "USER") = {} \/ RoleIds(mf, "BENEFICIARY") = {}
        THEN Fail(R010_SYMMETRY_TOLERANCE_FAIL)
        ELSE IF max_inc = 0 THEN Pass
        \* abs(i_user - i_ben) / max_inc > 0.15, cross-multiplied by the sign of max_inc
        ELSE IF (max_inc > 0 /\ SYMMETRY_TOLERANCE_DEN * Abs(i_user - i_ben)
                                  > SYMMETRY_TOLERANCE_NUM * max_inc)
                \/ (max_inc < 0 /\ SYMMETRY_TOLERANCE_DEN * Abs(i_user - i_ben)
                                  < SYMMETRY_TOLERANCE_NUM * max_inc)
        THEN Fail(R010_SYMMETRY_TOLERANCE_FAIL)
        ELSE Pass

(* Step 12: obligation enforcement *)

Instants == <<"T1", "T2", "T3", "T4", "T5", "T6">>

\* _parse_timestamp: the instant of a parseable absolute timestamp, 0 for None
parse_timestamp(v) ==
    IF IsStr(v) /\ \E i \in 1..MaxInstant : Instants[i] = v.s
    THEN CHOOSE i \in 1..MaxInstant : Instants[i] = v.s
    ELSE 0

\* the required fields of an obligation record
obligation_required_fields(o) ==
    IF ~IsDict(o) THEN Fail(R000_PARSE_FAILURE)
    ELSE IF ~Has(o, "id") \/ ~Has(o, "from") \/ ~Has(o, "to") \/ ~Has(o, "type")
    THEN Fail(R000_PARSE_FAILURE)
    ELSE Pass

\* expiry required and parseable
obligation_expiry(o) ==
    IF ~Truthy(Get(o, "expires_at")) THEN Fail(R013_EXPIRY_MISSING)
    ELSE IF parse_timestamp(o.d["expires_at"]) = 0 THEN Fail(R012_CONSENT_RULES_VIOLATED)
    ELSE Pass

\* direction permitted
obligation_direction(from_role, to_role) ==
    IF <<from_role, to_role>> \notin ALLOWED_OBLIGATION_DIRECTIONS
    THEN Fail(R011_OBLIGATION_DIRECTION_INVALID)
    ELSE Pass

obligation_consent_binding_off_by_one(o, o_exp, consent_expires) ==
    IF IsTrue(Get(o, "consent_required")) /\ o_exp >= consent_expires
    THEN Fail(R012_CONSENT_RULES_VIOLATED)
    ELSE Pass

\* consent binding: the expiry must not exceed the consent expiry
obligation_consent_binding(o, o_exp, consent_expires) ==
    IF IsTrue(Get(o, "consent_required")) /\ o_exp > consent_expires
    THEN Fail(R012_CONSENT_RULES_VIOLATED)
    ELSE Pass

\* the statement under `if o.get("consent_required") is not False:`
user_coercion_consent_result == Fail(R014_USER_COERCIVE_OBLIGATION)

obligation_user_coercion_any_type(o, to_role) ==
    IF to_role = "USER"
    THEN IF ~IsFalse(Get(o, "consent_required")) THEN user_coercion_consent_result
         ELSE Pass
    ELSE Pass

\* USER coercion hard rule
obligation_user_coercion(o, to_role) ==
    IF to_role = "USER"
    THEN IF Get(o, "type") # Str("INFORMATIONAL_DISCLOSURE")
         THEN Fail(R014_USER_COERCIVE_OBLIGATION)
         ELSE IF ~IsFalse(Get(o, "consent_required")) THEN user_coercion_consent_result
         ELSE Pass
    ELSE Pass

\* the body of the loop over the obligations, for one obligation
obligation_check(o, consent_expires, index) ==
    LET r1 == obligation_required_fields(o)
    IN  IF r1.kind # "ok" THEN r1
        ELSE LET r2 == obligation_expiry(o)
             IN  IF r2.kind # "ok" THEN r2
                 ELSE LET o_exp == parse_timestamp(o.d["expires_at"])
                          from_role == index[o.d["from"].s]
                          to_role == index[o.d["to"].s]
                          r3 == obligation_direction(from_role, to_role)
                      IN  IF r3.kind # "ok" THEN r3
                          ELSE LET r4 == obligation_consent_binding(o, o_exp, consent_expires)
                               IN  IF r4.kind # "ok" THEN r4
                                   ELSE obligation_user_coercion(o, to_role)

\* what the function returns after the loop
obligation_enforcement_end == Pass

RECURSIVE obligations_from(_, _, _, _)
obligations_from(obs, i, consent_expires, index) ==
    IF i > Len(obs) THEN obligation_enforcement_end
    ELSE LET r == obligation_check(obs[i], consent_expires, index)
         IN  IF r.kind # "ok" THEN r
             ELSE obligations_from(obs, i + 1, consent_expires, index)

strict_obligation_enforcement(mf, index) ==
    LET consent_expires == parse_timestamp(mf.d["consent"].d["consent_expires_at"])
    IN  IF consent_expires = 0 THEN Fail(R018_CONSENT_EXPIRY_MISSING)
        ELSE obligations_from(mf.d["obligations"].items, 1, consent_expires, index)

----------------------------------------------------------------------------
(* validate: the orchestrator, one stage per step *)

NoCode == "None"

ValidationResult(st, code) == [status |-> st, error_code |-> code]

AdmissibleWithLastErr == ValidationResult("ADMISSIBLE", "")

\* return ValidationResult("ADMISSIBLE")
Admissible == ValidationResult("ADMISSIBLE", NoCode)

NextStageSymmetryFirst(stage) ==
    CASE stage = "parse" -> "schema"
      [] stage = "schema" -> "index"
      [] stage = "index" -> "refint"
      [] stage = "refint" -> "alignment"
      [] stage = "alignment" -> "ownership"
      [] stage = "ownership" -> "consent"
      [] stage = "consent" -> "weights"
      [] stage = "weights" -> "coverage"
      [] stage = "coverage" -> "totals"
      [] stage = "totals" -> "symmetry"
      [] stage = "symmetry" -> "ratio"
      [] stage = "ratio" -> "obligations"
      [] stage = "obligations" -> "success"

\* the stage validate calls after `stage` has passed
NextStage(stage) ==
    CASE stage = "parse" -> "schema"
      [] stage = "schema" -> "index"
      [] stage = "index" -> "refint"
      [] stage = "refint" -> "alignment"
      [] stage = "alignment" -> "ownership"
      [] stage = "ownership" -> "consent"
      [] stage = "consent" -> "weights"
      [] stage = "weights" -> "coverage"
      [] stage = "coverage" -> "totals"
      [] stage = "totals" -> "ratio"
      [] stage = "ratio" -> "symmetry"
      [] stage = "symmetry" -> "obligations"
      [] stage = "obligations" -> "success"

\* ok, err = stage(...); if not ok: return ValidationResult("CORRUPTED", err)
Finish(stage, r) ==
    /\ ran' = Append(ran, stage)
    /\ UNCHANGED toolVars
    /\ IF r.kind = "raise"
       THEN pc' = "raised" /\ UNCHANGED <<status, error_code>>
       ELSE IF r.kind = "fail"
       THEN /\ pc' = "done"
            /\ status' = ValidationResult("CORRUPTED", r.err).status
            /\ error_code' = ValidationResult("CORRUPTED", r.err).error_code
       ELSE pc' = NextStage(stage) /\ UNCHANGED <<status, error_code>>

Step1Parse ==
    /\ pc = "parse"
    /\ Finish("parse", strict_parse_manifest(m))
    /\ UNCHANGED <<m, entity_index, totals>>

Step2Schema ==
    /\ pc = "schema"
    /\ Finish("schema", strict_schema_completeness(m))
    /\ UNCHANGED <<m, entity_index, totals>>

Step3Index ==
    /\ pc = "index"
    /\ LET r == build_entity_index(m)
       IN  /\ Finish("index", r)
           /\ entity_index' = r.index
    /\ UNCHANGED <<m, totals>>

Step3bReferential ==
    /\ pc = "refint"
    /\ Finish("refint", strict_referential_integrity(m, entity_index))
    /\ UNCHANGED <<m, entity_index, totals>>

Step4Alignment ==
    /\ pc = "alignment"
    /\ Finish("alignment", verify_user_beneficiary_alignment(m))
    /\ UNCHANGED <<m, entity_index, totals>>

Step5Ownership ==
    /\ pc = "ownership"
    /\ Finish("ownership", verify_ownership(m))
    /\ UNCHANGED <<m, entity_index, totals>>

Step6Consent ==
    /\ pc = "consent"
    /\ Finish("consent", verify_consent(m))
    /\ UNCHANGED <<m, entity_index, totals>>

Step7Weights ==
    /\ pc = "weights"
    /\ Finish("weights", verify_inconvenience_weights(m))
    /\ UNCHANGED <<m, entity_index, totals>>

Step8Coverage ==
    /\ pc = "coverage"
    /\ Finish("coverage", strict_inconvenience_coverage(m))
    /\ UNCHANGED <<m, entity_index, totals>>

\* a failure of the totals is reported as R008_BURDEN_MISSING whatever err is
Step9Totals ==
    /\ pc = "totals"
    /\ LET r == compute_inconvenience_totals(m)
       IN  /\ Finish("totals", IF r.kind = "fail" THEN Fail(R008_BURDEN_MISSING) ELSE r)
           /\ totals' = r.totals
    /\ UNCHANGED <<m, entity_index>>

Step10Ratio ==
    /\ pc = "ratio"
    /\ Finish("ratio", check_corruption_ratio(m, totals))
    /\ UNCHANGED <<m, entity_index, totals>>

Step11Symmetry ==
    /\ pc = "symmetry"
    /\ Finish("symmetry", check_symmetry_tolerance(m, totals))
    /\ UNCHANGED <<m, entity_index, totals>>

Step12Obligations ==
    /\ pc = "obligations"
    /\ Finish("obligations", strict_obligation_enforcement(m, entity_index))
    /\ UNCHANGED <<m, entity_index, totals>>

Step13Success ==
    /\ pc = "success"
    /\ pc' = "done"
    /\ status' = Admissible.status
    /\ error_code' = Admissible.error_code
    /\ UNCHANGED <<m, ran, entity_index, totals>>
    /\ UNCHANGED toolVars

Next ==
    \/ Step1Parse \/ Step2Schema \/ Step3Index \/ Step3bReferential
    \/ Step4Alignment \/ Step5Ownership \/ Step6Consent \/ Step7Weights
    \/ Step8Coverage \/ Step9Totals \/ Step10Ratio \/ Step11Symmetry
    \/ Step12Obligations \/ Step13Success

\* the release tools are not run together with validate
NoTool == "none"

\* the state in which validate is called on manifest mf
Start(mf) ==
    /\ m = mf
    /\ pc = "parse"
    /\ ran = <<>>
    /\ status = "NONE"
    /\ error_code = NoCode
    /\ entity_index = EmptyMap
    /\ totals = EmptyMap
    /\ repo = NoTool /\ tree = NoTool /\ baseline = NoTool /\ outcome = NoTool

----------------------------------------------------------------------------
(* The manifests validate is called on *)

Entity(id, role) == Dict([id |-> Str(id), role |-> Str(role)])

\* a burden record with the same burden, v / Scale, in both dimensions
Burden(id, v) == Dict([entity |-> Str(id), TIME |-> Num(v), COST |-> Num(v)])

Obligation(id, fr, to, type, consent_required, expires_at) ==
    Dict([id |-> Str(id), from |-> Str(fr), to |-> Str(to), type |-> Str(type),
          consent_required |-> Bool(consent_required), expires_at |-> Str(expires_at)])

BaseEntities ==
    << Entity("d1", "DESIGNER"), Entity("s1", "SYSTEM"), Entity("c1", "COMPONENT"),
       Entity("p1", "PRODUCT"), Entity("u1", "USER"), Entity("b1", "BENEFICIARY") >>

\* the baseline manifest: ADMISSIBLE
BaseManifest ==
    Dict([ entities |-> List(BaseEntities),
           system |-> Dict([ declared_user_entities |-> List(<<Str("u1")>>),
                             declared_beneficiary_entities |-> List(<<Str("u1")>>) ]),
           ownership |-> Dict([ ownership_explicit |-> Bool(TRUE),
                                control_direction |-> Str("DESIGNER_TO_USER") ]),
           consent |-> Dict([ consent_explicit |-> Bool(TRUE),
                              implied_consent_accepted |-> Bool(FALSE),
                              renegotiation_on_change |-> Bool(TRUE),
                              consent_expires_at |-> Str("T2") ]),
           inconvenience |->
               Dict([ model |-> Dict([ dimensions |-> List(<<Str("TIME"), Str("COST")>>) ]),
                      weights |-> Dict([ TIME |-> Num(1), COST |-> Num(Scale - 1) ]),
                      expected |-> List(<< Burden("u1", Scale), Burden("b1", Scale) >>) ]),
           obligations |->
               List(<< Obligation("o1", "d1", "s1", "MAINTENANCE", TRUE, "T1"),
                       Obligation("o2", "p1", "u1", "INFORMATIONAL_DISCLOSURE", FALSE, "T1") >>) ])

\* a path names a place in a document: keys of mappings, and "1", "2", ... for
\* the positions of a list
Digits == <<"1", "2", "3", "4", "5", "6", "7", "8", "9">>
IsIndex(k) == \E i \in 1..Len(Digits) : Digits[i] = k
IdxOf(k) == CHOOSE i \in 1..Len(Digits) : Digits[i] = k

\* the document v with x put at path (nothing changes when the path is not there)
RECURSIVE SetPath(_, _, _)
SetPath(v, path, x) ==
    IF path = <<>> THEN x
    ELSE LET k == Head(path)
         IN  IF IsDict(v) /\ (Len(path) = 1 \/ Has(v, k))
             THEN Dict([y \in (DOMAIN v.d) \cup {k} |->
                          IF y = k THEN SetPath(Get(v, k), Tail(path), x) ELSE v.d[y]])
             ELSE IF IsList(v) /\ IsIndex(k) /\ IdxOf(k) <= Len(v.items)
             THEN List([v.items EXCEPT ![IdxOf(k)] = SetPath(@, Tail(path), x)])
             ELSE v

\* the list q without its i-th item
RemoveAt(q, i) == [j \in 1..(Len(q) - 1) |-> IF j < i THEN q[j] ELSE q[j + 1]]

\* the document v without what is at path
RECURSIVE DelPath(_, _)
DelPath(v, path) ==
    LET k == Head(path)
    IN  IF IsDict(v) /\ Has(v, k)
        THEN IF Len(path) = 1
             THEN Dict([y \in (DOMAIN v.d) \ {k} |-> v.d[y]])
             ELSE Dict([y \in DOMAIN v.d |->
                          IF y = k THEN DelPath(v.d[k], Tail(path)) ELSE v.d[y]])
        ELSE IF IsList(v) /\ IsIndex(k) /\ IdxOf(k) <= Len(v.items)
        THEN IF Len(path) = 1
             THEN List(RemoveAt(v.items, IdxOf(k)))
             ELSE List([v.items EXCEPT ![IdxOf(k)] = DelPath(@, Tail(path))])
        ELSE v

Set(path, x) == [op |-> "set", path |-> path, val |-> x]
Del(path) == [op |-> "del", path |-> path, val |-> None]

\* the ways a manifest of the model departs from the baseline
Defects ==
    << Set(<<>>, List(<<>>)),
       Set(<<"inconvenience.weights">>, Dict(EmptyMap)),
       Del(<<"system">>),
       Set(<<"entities">>, Dict(EmptyMap)),
       Del(<<"system", "declared_user_entities">>),
       Del(<<"ownership", "control_direction">>),
       Del(<<"consent", "consent_expires_at">>),
       Set(<<"consent", "consent_expires_at">>, Str("")),
       Set(<<"consent", "consent_expires_at">>, Str("not-a-time")),
       Del(<<"inconvenience", "model", "dimensions">>),
       Del(<<"entities", "5", "role">>),
       Set(<<"entities", "5", "role">>, Str("ADMIN")),
       Set(<<"entities", "6", "id">>, Str("u1")),
       Set(<<"entities", "3", "role">>, List(<<Str("COMPONENT")>>)),
       Set(<<"system", "declared_user_entities">>, List(<<Str("ghost")>>)),
       Set(<<"obligations", "1", "from">>, Str("ghost")),
       Del(<<"obligations", "1", "to">>),
       Set(<<"inconvenience", "expected", "1", "entity">>, Str("ghost")),
       Set(<<"system", "declared_beneficiary_entities">>, List(<<Str("u1"), Str("b1")>>)),
       Set(<<"ownership", "ownership_explicit">>, Str("yes")),
       Set(<<"ownership", "control_direction">>, Str("USER_TO_DESIGNER")),
       Set(<<"consent", "consent_explicit">>, Bool(FALSE)),
       Set(<<"consent", "implied_consent_accepted">>, Bool(TRUE)),
       Set(<<"consent", "renegotiation_on_change">>, Bool(FALSE)),
       Set(<<"inconvenience", "weights", "TIME">>, Num(Scale + 1)),
       Set(<<"inconvenience", "weights", "COST">>, Num(-1)),
       Set(<<"inconvenience", "weights", "RISK">>, Num(0)),
       Set(<<"inconvenience", "model", "dimensions">>,
           List(<<Str("TIME"), Str("COST"), List(<<Str("RISK")>>)>>)),
       Set(<<"inconvenience", "expected">>, List(<<>>)),
       Del(<<"inconvenience", "expected", "1", "COST">>),
       Set(<<"inconvenience", "expected", "2", "TIME">>, Str("high")),
       Set(<<"inconvenience", "expected", "1">>, Burden("u1", 10 * Scale)),
       Set(<<"inconvenience", "expected">>,
           List(<<Burden("u1", 7 * Scale), Burden("b1", 5 * Scale)>>)),
       Set(<<"inconvenience", "expected", "2">>, Burden("b1", 0)),
       Set(<<"inconvenience", "expected", "1">>, Burden("u1", 0)),
       Del(<<"inconvenience", "expected", "1">>),
       Set(<<"entities", "5", "role">>, Str("DESIGNER")),
       Del(<<"obligations", "1", "type">>),
       Del(<<"obligations", "2", "id">>),
       Del(<<"obligations", "1", "expires_at">>),
       Set(<<"obligations", "1", "expires_at">>, Str("soon")),
       Set(<<"obligations", "1", "to">>, Str("d1")),
       Set(<<"obligations", "1", "expires_at">>, Str("T3")),
       Set(<<"obligations", "2", "type">>, Str("MAINTENANCE")),
       Set(<<"obligations", "2", "consent_required">>, Bool(TRUE)),
       Del(<<"obligations", "2", "consent_required">>) >>

ApplyDefect(v, i) ==
    IF Defects[i].op = "set" THEN SetPath(v, Defects[i].path, Defects[i].val)
    ELSE DelPath(v, Defects[i].path)

\* the strictly increasing sequences of at most n defects
RECURSIVE DefectChoices(_)
DefectChoices(n) ==
    IF n = 0 THEN { <<>> }
    ELSE LET prev == DefectChoices(n - 1)
         IN  prev \cup { Append(q, i) : q \in { c \in prev : Len(c) = n - 1 },
                                         i \in 1..Len(Defects) }

Increasing(q) == \A i \in 1..(Len(q) - 1) : q[i] < q[i + 1]

RECURSIVE ApplyAll(_, _, _)
ApplyAll(v, q, i) ==
    IF i > Len(q) THEN v ELSE ApplyAll(ApplyDefect(v, q[i]), q, i + 1)

\* the baseline manifest with at most MaxDefects defects
InitPipeline ==
    \E q \in DefectChoices(MaxDefects) :
        /\ Increasing(q)
        /\ Start(ApplyAll(BaseManifest, q, 1))

SpecPipeline == InitPipeline /\ [][Next]_vars

(* Manifests that differ from the baseline in their obligations *)

BaseIds == <<"d1", "s1", "c1", "p1", "u1", "b1">>

Present(x) == [has |-> TRUE, val |-> x]
Absent == [has |-> FALSE, val |-> None]

TypeOptions == << Present(Str("INFORMATIONAL_DISCLOSURE")), Present(Str("MAINTENANCE")), Absent >>

ConsentRequiredOptions == << Present(Bool(TRUE)), Present(Bool(FALSE)), Present(Str("no")), Absent >>

ExpiryOption(i) ==
    IF i = 0 THEN Absent
    ELSE IF i = 1 THEN Present(Str(""))
    ELSE IF i = 2 THEN Present(Str("soon"))
    ELSE Present(Str(Instants[i - 2]))

\* an obligation record with the fields that are present
ObligationOf(has_id, fr, to, type, consent_required, expires_at) ==
    LET fields == [ id |-> IF has_id THEN Present(Str("ox")) ELSE Absent,
                    from |-> Present(Str(fr)),
                    to |-> Present(Str(to)),
                    type |-> type,
                    consent_required |-> consent_required,
                    expires_at |-> expires_at ]
    IN  Dict([k \in { x \in DOMAIN fields : fields[x].has } |-> fields[k].val])

\* the context of the obligation under study: the obligations that come
\* before it (none, a compliant one, or one with a forbidden direction), whether
\* it has an id, and the consent expiry of the manifest
ContextOptions ==
    << [prefix |-> <<>>, has_id |-> TRUE, consent_expires_at |-> Str("T2")],
       [prefix |-> <<>>, has_id |-> FALSE, consent_expires_at |-> Str("T2")],
       [prefix |-> <<>>, has_id |-> TRUE, consent_expires_at |-> Str("not-a-time")],
       [prefix |-> << Obligation("o1", "d1", "s1", "MAINTENANCE", TRUE, "T1") >>,
        has_id |-> TRUE, consent_expires_at |-> Str("T2")],
       [prefix |-> << Obligation("o1", "u1", "d1", "MAINTENANCE", FALSE, "T1") >>,
        has_id |-> TRUE, consent_expires_at |-> Str("T2")] >>

InitObligations ==
    \E f \in 1..Len(BaseIds), t \in 1..Len(BaseIds), ty \in 1..Len(TypeOptions),
       cr \in 1..Len(ConsentRequiredOptions), ex \in 0..(MaxInstant + 2),
       cx \in 1..Len(ContextOptions) :
        Start(SetPath(
                SetPath(BaseManifest, <<"consent", "consent_expires_at">>,
                        ContextOptions[cx].consent_expires_at),
                <<"obligations">>,
                List(ContextOptions[cx].prefix
                     \o << ObligationOf(ContextOptions[cx].has_id, BaseIds[f], BaseIds[t],
                                        TypeOptions[ty], ConsentRequiredOptions[cr],
                                        ExpiryOption(ex)) >>)))

SpecObligations == InitObligations /\ [][Next]_vars

(* Manifests that differ from the baseline in their USER and BENEFICIARY
   entities and in the burdens of those *)

\* burdens, in whole units, of the first USER and the first BENEFICIARY
BurdenValues == {-1, 0, 2, 3, 5, 7, 17, 20}

\* a second USER or BENEFICIARY: absent, or present with this burden
SecondOptions == << [has |-> FALSE, v |-> 0], [has |-> TRUE, v |-> -1],
                    [has |-> TRUE, v |-> 0], [has |-> TRUE, v |-> 4] >>

BurdenManifest(u1role, b1role, u1, b1, u2, b2) ==
    LET entities ==
            << Entity("d1", "DESIGNER"), Entity("s1", "SYSTEM"), Entity("c1", "COMPONENT"),
               Entity("p1", "PRODUCT"), Entity("u1", u1role), Entity("b1", b1role) >>
            \o (IF u2.has THEN << Entity("u2", "USER") >> ELSE <<>>)
            \o (IF b2.has THEN << Entity("b2", "BENEFICIARY") >> ELSE <<>>)
        expected ==
            << Burden("u1", u1 * Scale), Burden("b1", b1 * Scale) >>
            \o (IF u2.has THEN << Burden("u2", u2.v * Scale) >> ELSE <<>>)
            \o (IF b2.has THEN << Burden("b2", b2.v * Scale) >> ELSE <<>>)
    IN  SetPath(SetPath(BaseManifest, <<"entities">>, List(entities)),
                <<"inconvenience", "expected">>, List(expected))

InitBurdens ==
    \E u1role \in {"USER", "COMPONENT"}, b1role \in {"BENEFICIARY", "COMPONENT"},
       u1 \in BurdenValues, b1 \in BurdenValues,
       u2 \in 1..Len(SecondOptions), b2 \in 1..Len(SecondOptions) :
        Start(BurdenManifest(u1role, b1role, u1, b1, SecondOptions[u2], SecondOptions[b2]))

SpecBurdens == InitBurdens /\ [][Next]_vars

(* Manifests that differ from the baseline in the two declared entity lists:
   every list of at most MaxDeclared identifiers of the entity index, in any
   order and with repetitions *)

DeclaredIds == {"u1", "b1", "d1"}

DeclaredLists == UNION { [1..k -> {Str(id) : id \in DeclaredIds}] : k \in 0..MaxDeclared }

InitAlignment ==
    \E us \in DeclaredLists, bs \in DeclaredLists :
        Start(SetPath(SetPath(BaseManifest, <<"system", "declared_user_entities">>, List(us)),
                      <<"system", "declared_beneficiary_entities">>, List(bs)))

SpecAlignment == InitAlignment /\ [][Next]_vars

(* Manifests that differ from the baseline in the weight mapping and in the
   declared dimensions *)

WeightKeys == <<"TIME", "COST", "RISK", "AGENCY">>

\* what a dimension's weight is: absent, a number (0, 1/Scale, 2/Scale,
\* 1 - 1/Scale, -1/Scale), a boolean or a string
WeightOptions ==
    << Absent, Present(Num(0)), Present(Num(1)), Present(Num(2)), Present(Num(Scale - 1)),
       Present(Num(-1)), Present(Bool(TRUE)), Present(Str("1")) >>

\* the mapping with the i-th key at the option pick[i]
WeightMapping(pick) ==
    LET keys == { WeightKeys[i] : i \in { j \in 1..Len(WeightKeys) : WeightOptions[pick[j]].has } }
    IN  Dict([ k \in keys |->
                 WeightOptions[pick[CHOOSE i \in 1..Len(WeightKeys) : WeightKeys[i] = k]].val ])

DimensionOptions ==
    << <<Str("TIME"), Str("COST")>>, <<Str("COST"), Str("TIME")>>, <<Str("TIME")>>,
       <<Str("TIME"), Str("COST"), Str("TIME")>>,
       <<Str("TIME"), Str("COST"), Str("RISK"), Str("AGENCY")>>,
       <<Str("TIME"), Num(Scale)>> >>

InitWeights ==
    \E pick \in [1..Len(WeightKeys) -> 1..Len(WeightOptions)], d \in 1..Len(DimensionOptions) :
        Start(SetPath(SetPath(BaseManifest, <<"inconvenience", "weights">>, WeightMapping(pick)),
                      <<"inconvenience", "model", "dimensions">>, List(DimensionOptions[d])))

SpecWeights == InitWeights /\ [][Next]_vars

(* Manifests that differ from the baseline in the first obligation record and
   in the first burden record: `from`, `to` and `entity` are absent, an
   identifier of the index, a string that is no identifier, or no string *)

ReferenceOptions(id) ==
    << Present(Str(id)), Present(Str("ghost")), Present(Str("")), Present(Num(Scale)),
       Present(None), Present(List(<<Str(id)>>)), Absent >>

\* the record r with key k at the option opt
WithOption(r, k, opt) == IF opt.has THEN SetPath(r, <<k>>, opt.val) ELSE DelPath(r, <<k>>)

\* the first obligation: not a mapping, or the baseline's with from and to replaced
ObligationRecordOptions ==
    << Str("o1") >>
    \o [ i \in 1..(Len(ReferenceOptions("d1")) * Len(ReferenceOptions("s1"))) |->
           WithOption(WithOption(BaseManifest.d["obligations"].items[1], "from",
                                 ReferenceOptions("d1")[((i - 1) \div Len(ReferenceOptions("s1"))) + 1]),
                      "to", ReferenceOptions("s1")[((i - 1) % Len(ReferenceOptions("s1"))) + 1]) ]

\* the first burden record: not a mapping, or the baseline's with entity replaced
BurdenRecordOptions ==
    << Str("u1") >>
    \o [ i \in 1..Len(ReferenceOptions("u1")) |->
           WithOption(BaseManifest.d["inconvenience"].d["expected"].items[1], "entity",
                      ReferenceOptions("u1")[i]) ]

InitReferences ==
    \E o \in 1..Len(ObligationRecordOptions), b \in 1..Len(BurdenRecordOptions) :
        Start(SetPath(SetPath(BaseManifest, <<"obligations", "1">>, ObligationRecordOptions[o]),
                      <<"inconvenience", "expected", "1">>, BurdenRecordOptions[b]))

SpecReferences == InitReferences /\ [][Next]_vars

----------------------------------------------------------------------------
(* src/tools/immutability_enforcement.py, run in a git repository.

   A string the tool takes apart is a sequence of pieces.  A tree maps each
   path to the content of the file there, or to NoFile.  The repository is
   the tree of HEAD, the working tree, and for each tag the tree of the commit
   it names (NoTag when the tag does not exist).  Commits are made with every
   change of the working tree staged, so a file is untracked exactly when it
   is in the working tree and not in HEAD. *)

NoFile == "absent"

FileContents == {"x", "y"}

RepoPaths ==
    { <<"standards/v", "0.1", "/", "spec.md">>, <<"standards/v", "0.2", "/", "spec.md">>,
      <<"README.md">> }

TagNames ==
    { <<"slml-v", "0.1">>, <<"slml-v", "0.2">>, <<"slml-v", "0.1", "-rc1">>, <<"v", "0.1">> }

\* a tag that does not exist, and a tag that names the commit with this tree
NoTag == [exists |-> FALSE, tree |-> [p \in RepoPaths |-> NoFile]]
TagOf(t) == [exists |-> TRUE, tree |-> t]

\* the strings \d+\.\d+ matches in full
VersionNumbers == {"0.1", "0.2"}

\* TAG_PATTERN.fullmatch(tag): the groups of the match, <<>> for no match
TAG_PATTERN_fullmatch(tag) ==
    IF Len(tag) = 2 /\ tag[1] = "slml-v" /\ tag[2] \in VersionNumbers THEN << tag[2] >> ELSE <<>>

\* git tag: the tags that exist
git_tag(r) == { t \in TagNames : r.tags[t].exists }

get_released_versions(r) ==
    { TAG_PATTERN_fullmatch(t)[1] : t \in { u \in git_tag(r) : TAG_PATTERN_fullmatch(u) # <<>> } }

\* git diff --name-only HEAD: the paths of HEAD whose file in the working tree
\* differs from the one in HEAD or is gone (untracked files are not listed)
get_changed_files(r) == { p \in RepoPaths : r.head[p] # NoFile /\ r.work[p] # r.head[p] }

\* path.startswith(prefix)
StartsWith(path, prefix) ==
    Len(path) >= Len(prefix) /\ SubSeq(path, 1, Len(prefix)) = prefix

\* main(): the exit status
immutability_main(r) ==
    LET released_versions == get_released_versions(r)
        changed == get_changed_files(r)
        violations ==
            { path \in changed :
                \E v \in released_versions : StartsWith(path, <<"standards/v", v, "/">>) }
    IN  IF released_versions = {} THEN 0
        ELSE IF violations # {} THEN 1
        ELSE 0

\* a file of the working tree is written
GitWrite(p, c) ==
    /\ pc = "repo" /\ repo.n < MaxRepoSteps
    /\ repo.work[p] # c
    /\ repo' = [repo EXCEPT !.work[p] = c, !.n = @ + 1]
    /\ UNCHANGED <<pc, tree, baseline, outcome>> /\ UNCHANGED validatorVars

\* a file of the working tree is deleted
GitRemove(p) ==
    /\ pc = "repo" /\ repo.n < MaxRepoSteps
    /\ repo.work[p] # NoFile
    /\ repo' = [repo EXCEPT !.work[p] = NoFile, !.n = @ + 1]
    /\ UNCHANGED <<pc, tree, baseline, outcome>> /\ UNCHANGED validatorVars

\* git add -A; git commit
GitCommit ==
    /\ pc = "repo" /\ repo.n < MaxRepoSteps
    /\ repo.work # repo.head
    /\ repo' = [repo EXCEPT !.head = repo.work, !.n = @ + 1]
    /\ UNCHANGED <<pc, tree, baseline, outcome>> /\ UNCHANGED validatorVars

\* git tag t
GitTag(t) ==
    /\ pc = "repo" /\ repo.n < MaxRepoSteps
    /\ ~repo.tags[t].exists
    /\ repo' = [repo EXCEPT !.tags[t] = TagOf(repo.head), !.n = @ + 1]
    /\ UNCHANGED <<pc, tree, baseline, outcome>> /\ UNCHANGED validatorVars

\* sys.exit(main())
RunImmutabilityCheck ==
    /\ pc = "repo"
    /\ outcome' = immutability_main(repo)
    /\ pc' = "checked"
    /\ UNCHANGED <<repo, tree, baseline>> /\ UNCHANGED validatorVars

\* validate is not run by the tools
NoValidator ==
    /\ m = NoTool /\ ran = <<>> /\ status = "NONE" /\ error_code = NoCode
    /\ entity_index = EmptyMap /\ totals = EmptyMap

\* a clean repository with every file committed and no tag
InitImmutability ==
    /\ pc = "repo"
    /\ repo = [ head |-> [p \in RepoPaths |-> "x"], work |-> [p \in RepoPaths |-> "x"],
                tags |-> [t \in TagNames |-> NoTag], n |-> 0 ]
    /\ tree = NoTool /\ baseline = NoTool /\ outcome = NoTool
    /\ NoValidator

NextImmutability ==
    \/ \E p \in RepoPaths, c \in FileContents : GitWrite(p, c)
    \/ \E p \in RepoPaths : GitRemove(p)
    \/ GitCommit
    \/ \E t \in TagNames : GitTag(t)
    \/ RunImmutabilityCheck

SpecImmutability == InitImmutability /\ [][NextImmutability]_vars

----------------------------------------------------------------------------
(* src/tools/hash_release.py: generating and verifying the hash list of a
   version directory.

   Text is a sequence of pieces: " " and "\n" are the white space, "/" the
   path separator, every other piece a run of other characters.  The version
   directory maps each relative path to a file or to NoEntry; there are no
   symlinks. *)

HASH_FILENAME == << "HASHES.sha256" >>

SHA256_HEX_LEN == 64

HexDigits == {"0", "1", "2", "3", "4", "5", "6", "7", "8", "9", "a", "b", "c", "d", "e", "f"}

WhiteSpace == {" ", "\n"}

FileOf(bytes) == [exists |-> TRUE, bytes |-> bytes]
NoEntry == [exists |-> FALSE, bytes |-> <<>>]

\* the relative paths of the files a version directory may hold besides its
\* hash list, in the order of their posix strings: a name with a line break, a
\* plain name, a name that ends in a space, and a file in a subdirectory that
\* is named like the hash list
HashedPaths ==
    << <<"a", "\n", "b">>, <<"a.md">>, <<"a.md", " ">>, <<"sub", "/", "HASHES.sha256">> >>

PathSet == { HashedPaths[i] : i \in 1..Len(HashedPaths) }

\* the byte contents of those files
ByteContents == { <<"x">>, <<"y">> }

\* _sha256_file: the hex digest, different for different contents
sha256_file(bytes) ==
    [ i \in 1..SHA256_HEX_LEN |-> IF i > 1 THEN "0" ELSE IF bytes = <<"x">> THEN "a" ELSE "b" ]

FileHash(rel_posix_path, sha256_hex) ==
    [rel_posix_path |-> rel_posix_path, sha256_hex |-> sha256_hex]

\* _iter_files and _compute_hashes: the files under the directory except the
\* top-level hash list, in the order of their relative paths
RECURSIVE compute_hashes_from(_, _)
compute_hashes_from(dir, i) ==
    IF i > Len(HashedPaths) THEN <<>>
    ELSE LET path == HashedPaths[i]
             rest == compute_hashes_from(dir, i + 1)
         IN  IF ~dir[path].exists \/ path \in {HASH_FILENAME} THEN rest
             ELSE << FileHash(path, sha256_file(dir[path].bytes)) >> \o rest

compute_hashes(dir) == compute_hashes_from(dir, 1)

\* "\n".join(lines) + "\n", with a line "<hex>  <path>" for each hash
RECURSIVE join_lines(_, _)
join_lines(hashes, i) ==
    IF i > Len(hashes) THEN <<>>
    ELSE hashes[i].sha256_hex \o <<" ", " ">> \o hashes[i].rel_posix_path
         \o (IF i < Len(hashes) THEN <<"\n">> ELSE <<>>)
         \o join_lines(hashes, i + 1)

\* _write_hash_file: the directory with the hash list written
write_hash_file(dir, hashes) ==
    [dir EXCEPT ![HASH_FILENAME] = FileOf(join_lines(hashes, 1) \o <<"\n">>)]

\* str.splitlines
RECURSIVE splitlines(_)
splitlines(text) ==
    LET breaks == { i \in 1..Len(text) : text[i] = "\n" }
    IN  IF text = <<>> THEN <<>>
        ELSE IF breaks = {} THEN << text >>
        ELSE LET i == CHOOSE j \in breaks : \A k \in breaks : j <= k
             IN  << SubSeq(text, 1, i - 1) >> \o splitlines(SubSeq(text, i + 1, Len(text)))

\* str.strip
RECURSIVE strip(_)
strip(t) ==
    IF t = <<>> THEN t
    ELSE IF t[1] \in WhiteSpace THEN strip(Tail(t))
    ELSE IF t[Len(t)] \in WhiteSpace THEN strip(SubSeq(t, 1, Len(t) - 1))
    ELSE t

\* line.split("  ", 1)
split_two_spaces(line) ==
    LET at == { i \in 1..(Len(line) - 1) : line[i] = " " /\ line[i + 1] = " " }
    IN  IF at = {} THEN << line >>
        ELSE LET i == CHOOSE j \in at : \A k \in at : j <= k
             IN  << SubSeq(line, 1, i - 1), SubSeq(line, i + 2, Len(line)) >>

\* _read_hash_file, from the lines of the hash list: the hashes read, or
\* died when _die(..., 2) ends the run
RECURSIVE read_lines(_, _, _)
read_lines(lines, i, hashes) ==
    IF i > Len(lines) THEN [died |-> FALSE, hashes |-> hashes]
    ELSE LET line == strip(lines[i])
             parts == split_two_spaces(line)
         IN  IF line = <<>> THEN read_lines(lines, i + 1, hashes)
             ELSE IF Len(parts) # 2 THEN [died |-> TRUE, hashes |-> <<>>]
             ELSE LET hex_hash == strip(parts[1])
                      rel_path == strip(parts[2])
                  IN  IF \/ Len(hex_hash) # SHA256_HEX_LEN
                         \/ \E k \in 1..Len(hex_hash) : hex_hash[k] \notin HexDigits
                      THEN [died |-> TRUE, hashes |-> <<>>]
                      ELSE IF \/ rel_path = <<>>
                              \/ rel_path[1] = "/"
                              \/ \E k \in 1..Len(rel_path) : rel_path[k] = ".."
                      THEN [died |-> TRUE, hashes |-> <<>>]
                      ELSE read_lines(lines, i + 1, Append(hashes, FileHash(rel_path, hex_hash)))

read_hash_file(dir) ==
    IF ~dir[HASH_FILENAME].exists THEN [died |-> TRUE, hashes |-> <<>>]
    ELSE read_lines(splitlines(dir[HASH_FILENAME].bytes), 1, <<>>)

\* {h.rel_posix_path: h.sha256_hex for h in hashes}: a later entry replaces an
\* earlier one with the same path
hash_map(hashes) ==
    [ path \in { hashes[i].rel_posix_path : i \in 1..Len(hashes) } |->
        hashes[CHOOSE i \in 1..Len(hashes) :
                  /\ hashes[i].rel_posix_path = path
                  /\ \A j \in (i + 1)..Len(hashes) : hashes[j].rel_posix_path # path].sha256_hex ]

\* the error lines of one kind for the paths of the set, in sorted order
RECURSIVE error_lines(_, _, _)
error_lines(kind, paths, i) ==
    IF i > Len(HashedPaths) THEN <<>>
    ELSE (IF HashedPaths[i] \in paths THEN << [kind |-> kind, path |-> HashedPaths[i]] >> ELSE <<>>)
         \o error_lines(kind, paths, i + 1)

\* _verify_hashes: (ok, errors), or died when reading the hash list ends the run
verify_hashes(dir) ==
    LET expected == read_hash_file(dir)
        expected_map == hash_map(expected.hashes)
        computed_map == hash_map(compute_hashes(dir))
        errors ==
            error_lines("MISSING", DOMAIN expected_map \ DOMAIN computed_map, 1)
            \o error_lines("EXTRA", DOMAIN computed_map \ DOMAIN expected_map, 1)
            \o error_lines("MISMATCH",
                           { path \in DOMAIN expected_map \cap DOMAIN computed_map :
                               expected_map[path] # computed_map[path] }, 1)
    IN  IF expected.died THEN [died |-> TRUE, ok |-> FALSE, errors |-> <<>>]
        ELSE [died |-> FALSE, ok |-> Len(errors) = 0, errors |-> errors]

\* hashes = _compute_hashes(version_dir); _write_hash_file(version_dir, hashes)
GenerateHashes ==
    /\ pc = "directory"
    /\ tree' = write_hash_file(tree, compute_hashes(tree))
    /\ baseline' = tree
    /\ pc' = "listed"
    /\ UNCHANGED <<repo, outcome>> /\ UNCHANGED validatorVars

\* a file other than the hash list is written after the list was generated
WriteFile(path, bytes) ==
    /\ pc = "listed"
    /\ tree[path] # FileOf(bytes)
    /\ tree' = [tree EXCEPT ![path] = FileOf(bytes)]
    /\ UNCHANGED <<pc, repo, baseline, outcome>> /\ UNCHANGED validatorVars

\* a file other than the hash list is removed after the list was generated
RemoveFile(path) ==
    /\ pc = "listed"
    /\ tree[path].exists
    /\ tree' = [tree EXCEPT ![path] = NoEntry]
    /\ UNCHANGED <<pc, repo, baseline, outcome>> /\ UNCHANGED validatorVars

\* ok, errors = _verify_hashes(version_dir), run with or without a hash list
VerifyHashes ==
    /\ pc \in {"directory", "listed"}
    /\ outcome' = verify_hashes(tree)
    /\ pc' = IF pc = "listed" THEN "verified" ELSE "verified without list"
    /\ UNCHANGED <<repo, tree, baseline>> /\ UNCHANGED validatorVars

\* a version directory with any of the files, and no hash list yet
InitHashes ==
    /\ pc = "directory"
    /\ \E files \in [PathSet -> {NoEntry} \cup { FileOf(b) : b \in ByteContents }] :
           tree = [ path \in PathSet \cup {HASH_FILENAME} |->
                      IF path \in PathSet THEN files[path] ELSE NoEntry ]
    /\ baseline = [ path \in PathSet \cup {HASH_FILENAME} |-> NoEntry ]
    /\ repo = NoTool /\ outcome = NoTool
    /\ NoValidator

NextHashes ==
    \/ GenerateHashes
    \/ \E path \in PathSet, bytes \in ByteContents : WriteFile(path, bytes)
    \/ \E path \in PathSet : RemoveFile(path)
    \/ VerifyHashes

SpecHashes == InitHashes /\ [][NextHashes]_vars

----------------------------------------------------------------------------
(* Properties of the pipeline *)

StageOrder ==
    << "parse", "schema", "index", "refint", "alignment", "ownership", "consent",
       "weights", "coverage", "totals", "ratio", "symmetry", "obligations" >>

ReasonCodes ==
    { R000_PARSE_FAILURE, R001_USER_BENEFICIARY_MISMATCH, R002_OWNERSHIP_NOT_EXPLICIT,
      R003_CONTROL_DIRECTION_INVALID, R004_CONSENT_NOT_EXPLICIT, R005_IMPLIED_CONSENT_PRESENT,
      R006_RENEGOTIATION_DISABLED, R007_WEIGHTS_INVALID, R008_BURDEN_MISSING,
      R009_INCONVENIENCE_RATIO_FAIL, R010_SYMMETRY_TOLERANCE_FAIL,
      R011_OBLIGATION_DIRECTION_INVALID, R012_CONSENT_RULES_VIOLATED, R013_EXPIRY_MISSING,
      R014_USER_COERCIVE_OBLIGATION, R017_ROLE_INTEGRITY_FAIL, R018_CONSENT_EXPIRY_MISSING }

\* what a stage that has been run handed back, from the manifest and what the
\* earlier stages left
StageOutcome(stage) ==
    CASE stage = "parse" -> strict_parse_manifest(m)
      [] stage = "schema" -> strict_schema_completeness(m)
      [] stage = "index" -> LET r == build_entity_index(m) IN [kind |-> r.kind, err |-> r.err]
      [] stage = "refint" -> strict_referential_integrity(m, entity_index)
      [] stage = "alignment" -> verify_user_beneficiary_alignment(m)
      [] stage = "ownership" -> verify_ownership(m)
      [] stage = "consent" -> verify_consent(m)
      [] stage = "weights" -> verify_inconvenience_weights(m)
      [] stage = "coverage" -> strict_inconvenience_coverage(m)
      [] stage = "totals" ->
            LET r == compute_inconvenience_totals(m) IN [kind |-> r.kind, err |-> r.err]
      [] stage = "ratio" -> check_corruption_ratio(m, totals)
      [] stage = "symmetry" -> check_symmetry_tolerance(m, totals)
      [] stage = "obligations" -> strict_obligation_enforcement(m, entity_index)

Returned == pc = "done"

\* C1: the stages run in the fixed order, each only after all the earlier
\* ones passed; a CORRUPTED result carries the code of the stage that was run
\* last, which is the first one to fail, and no stage runs after it; an
\* ADMISSIBLE result is returned only after all thirteen stages passed.
C1_FirstFailureWins ==
    /\ \E k \in 0..Len(StageOrder) : ran = SubSeq(StageOrder, 1, k)
    /\ \A j \in 1..(Len(ran) - 1) : StageOutcome(ran[j]).kind = "ok"
    /\ (Returned /\ status = "CORRUPTED") =>
          /\ ran # <<>>
          /\ StageOutcome(ran[Len(ran)]).kind = "fail"
          /\ error_code = StageOutcome(ran[Len(ran)]).err
    /\ (Returned /\ status # "CORRUPTED") =>
          /\ status = "ADMISSIBLE"
          /\ ran = StageOrder
          /\ \A j \in 1..Len(ran) : StageOutcome(ran[j]).kind = "ok"
    /\ (pc \in {"raised", "done"}) \/ (pc = "success" /\ ran = StageOrder)
          \/ (Len(ran) < Len(StageOrder) /\ pc = StageOrder[Len(ran) + 1])

\* a manifest rejected by the ratio stage although its obligations are in
\* violation too: the later stage was not run and its code is not reported
C1_Witness ==
    /\ Returned /\ status = "CORRUPTED"
    /\ ran = SubSeq(StageOrder, 1, 11)
    /\ error_code = R009_INCONVENIENCE_RATIO_FAIL
    /\ strict_obligation_enforcement(m, entity_index).kind = "fail"

\* C2: a returned result is ADMISSIBLE or CORRUPTED; it carries an error code
\* exactly when it is CORRUPTED, and the code is one of the seventeen reason
\* codes.
C2_ResultShape ==
    Returned =>
        /\ status \in {"ADMISSIBLE", "CORRUPTED"}
        /\ (error_code # NoCode) <=> (status = "CORRUPTED")
        /\ status = "CORRUPTED" => error_code \in ReasonCodes

C2_Witness == Returned /\ status = "ADMISSIBLE" /\ error_code = NoCode /\ ran = StageOrder

\* C3: no stage lets an exception escape from validate.
C3_NoFaultEscapes == pc # "raised"

\* a structural violation that only the obligation stage looks for: a consent
\* expiry that does not parse, or an obligation record without a required field
LateStructuralViolation ==
    \/ parse_timestamp(m.d["consent"].d["consent_expires_at"]) = 0
    \/ \E i \in 1..Len(m.d["obligations"].items) :
           obligation_required_fields(m.d["obligations"].items[i]).kind = "fail"

\* the totals were computed and the ratio or the symmetry rule is violated
FairnessViolation ==
    /\ Len(ran) >= 11
    /\ \/ check_corruption_ratio(m, totals).kind = "fail"
       \/ check_symmetry_tolerance(m, totals).kind = "fail"

\* C4: a manifest that violates a structural rule and a fairness rule is
\* reported with the structural code, never with the ratio or symmetry code.
C4_StructuralWins ==
    (Returned /\ FairnessViolation /\ LateStructuralViolation) =>
        /\ error_code \in {R000_PARSE_FAILURE, R018_CONSENT_EXPIRY_MISSING}
        /\ error_code \notin {R009_INCONVENIENCE_RATIO_FAIL, R010_SYMMETRY_TOLERANCE_FAIL}

\* the entity has a burden record in inconvenience.expected
HasBurdenRecord(id) ==
    \E i \in 1..Len(m.d["inconvenience"].d["expected"].items) :
        m.d["inconvenience"].d["expected"].items[i].d["entity"] = Str(id)

\* C5: a manifest that passes the stages up to the weights and has a USER or
\* BENEFICIARY entity without a burden record is CORRUPTED with BURDEN_MISSING.
C5_BurdenRecordRequired ==
    (/\ Returned
     /\ Len(ran) >= 9
     /\ \E id \in RoleIds(m, "USER") \cup RoleIds(m, "BENEFICIARY") : ~HasBurdenRecord(id))
    => (status = "CORRUPTED" /\ error_code = R008_BURDEN_MISSING)

----------------------------------------------------------------------------
(* Properties of the obligation stage.  They are stated over the fields of the
   obligation records, for manifests that reached the obligation stage: every
   obligation is then a mapping whose `from` and `to` are in the entity index. *)

ObligationStageRan == Returned /\ ran = StageOrder

Obs == m.d["obligations"].items

FromRole(o) == entity_index[o.d["from"].s]
ToRole(o) == entity_index[o.d["to"].s]

ConsentExpiry == parse_timestamp(m.d["consent"].d["consent_expires_at"])

\* id, from, to and type are present; expires_at is present and parses
WellFormedObligation(o) ==
    /\ {"id", "from", "to", "type", "expires_at"} \subseteq DOMAIN o.d
    /\ parse_timestamp(o.d["expires_at"]) # 0

\* the fixed direction table
DirectionInTable(o) ==
    \/ FromRole(o) = "DESIGNER" /\ ToRole(o) = "SYSTEM"
    \/ FromRole(o) = "SYSTEM" /\ ToRole(o) = "COMPONENT"
    \/ FromRole(o) = "SYSTEM" /\ ToRole(o) = "PRODUCT"
    \/ FromRole(o) = "COMPONENT" /\ ToRole(o) = "PRODUCT"
    \/ FromRole(o) = "PRODUCT" /\ ToRole(o) = "USER"

ConsentRequiredIs(o, b) == Has(o, "consent_required") /\ o.d["consent_required"] = Bool(b)

\* consent_required is true and the obligation outlives the consent
OutlivesConsent(o) ==
    ConsentRequiredIs(o, TRUE) /\ parse_timestamp(o.d["expires_at"]) > ConsentExpiry

NonCoercive(o) ==
    o.d["type"] = Str("INFORMATIONAL_DISCLOSURE") /\ ConsentRequiredIs(o, FALSE)

\* the obligation violates no rule of the obligation stage
Compliant(o) ==
    /\ WellFormedObligation(o)
    /\ DirectionInTable(o)
    /\ ~OutlivesConsent(o)
    /\ ToRole(o) = "USER" => NonCoercive(o)

\* the obligations before the i-th violate nothing
FirstToCheck(i) == \A j \in 1..(i - 1) : Compliant(Obs[j])

RejectedWith(code) == status = "CORRUPTED" /\ error_code = code

\* C6: an obligation to a USER that passed the required-field, expiry,
\* direction and consent-binding checks is rejected with
\* USER_COERCIVE_OBLIGATION unless its type is INFORMATIONAL_DISCLOSURE and its
\* consent_required is false; no ADMISSIBLE manifest has an obligation to a
\* USER of another type or consent_required value.
C6_UserCoercion ==
    /\ (ObligationStageRan /\ ConsentExpiry # 0) =>
          \A i \in 1..Len(Obs) :
              (/\ FirstToCheck(i)
               /\ WellFormedObligation(Obs[i])
               /\ DirectionInTable(Obs[i])
               /\ ~OutlivesConsent(Obs[i])
               /\ ToRole(Obs[i]) = "USER"
               /\ ~NonCoercive(Obs[i]))
              => RejectedWith(R014_USER_COERCIVE_OBLIGATION)
    /\ (Returned /\ status = "ADMISSIBLE") =>
          \A i \in 1..Len(Obs) : ToRole(Obs[i]) = "USER" => NonCoercive(Obs[i])

\* an INFORMATIONAL_DISCLOSURE from a PRODUCT to a USER without a
\* consent_required field is rejected as coercive
C6_Witness ==
    /\ ObligationStageRan
    /\ RejectedWith(R014_USER_COERCIVE_OBLIGATION)
    /\ LET o == Obs[Len(Obs)]
       IN  /\ FirstToCheck(Len(Obs))
           /\ WellFormedObligation(o)
           /\ FromRole(o) = "PRODUCT" /\ ToRole(o) = "USER"
           /\ o.d["type"] = Str("INFORMATIONAL_DISCLOSURE")
           /\ ~Has(o, "consent_required")

\* C7 as stated: when the first violating obligation has a role pair outside
\* the table, the manifest is rejected with OBLIGATION_DIRECTION_INVALID
\* whatever the other fields of that obligation are.
C7_DirectionRegardless ==
    ObligationStageRan =>
        \A i \in 1..Len(Obs) :
            (FirstToCheck(i) /\ ~DirectionInTable(Obs[i]))
            => RejectedWith(R011_OBLIGATION_DIRECTION_INVALID)

\* C7 as amended: when the consent expiry parses and the first violating
\* obligation has a role pair outside the table, has its id and type and has an
\* expires_at that is present and parses, the manifest is rejected with
\* OBLIGATION_DIRECTION_INVALID whatever its type and consent_required are and
\* whatever the values of its id and expires_at are.
C7_DirectionOfWellFormed ==
    (ObligationStageRan /\ ConsentExpiry # 0) =>
        \A i \in 1..Len(Obs) :
            (FirstToCheck(i) /\ WellFormedObligation(Obs[i]) /\ ~DirectionInTable(Obs[i]))
            => RejectedWith(R011_OBLIGATION_DIRECTION_INVALID)

\* an obligation from a USER to a DESIGNER that also outlives the consent and
\* is of a coercive type is reported for its direction
C7_Witness ==
    /\ ObligationStageRan
    /\ RejectedWith(R011_OBLIGATION_DIRECTION_INVALID)
    /\ LET o == Obs[Len(Obs)]
       IN  /\ FirstToCheck(Len(Obs))
           /\ WellFormedObligation(o)
           /\ FromRole(o) = "USER" /\ ToRole(o) = "DESIGNER"
           /\ OutlivesConsent(o)
           /\ o.d["type"] = Str("MAINTENANCE")

\* C8: in an ADMISSIBLE manifest no obligation with consent_required true
\* expires after the consent; an obligation with its required fields, an allowed
\* direction, a parseable expiry, consent_required true and an expiry after
\* the consent expiry is rejected with CONSENT_RULES_VIOLATED; an expiry equal
\* to the consent expiry is not a violation.
C8_ConsentBinding ==
    /\ (Returned /\ status = "ADMISSIBLE") =>
          \A i \in 1..Len(Obs) :
              ConsentRequiredIs(Obs[i], TRUE)
              => parse_timestamp(Obs[i].d["expires_at"]) <= ConsentExpiry
    /\ (ObligationStageRan /\ ConsentExpiry # 0) =>
          \A i \in 1..Len(Obs) :
              (/\ FirstToCheck(i)
               /\ WellFormedObligation(Obs[i])
               /\ DirectionInTable(Obs[i])
               /\ OutlivesConsent(Obs[i]))
              => RejectedWith(R012_CONSENT_RULES_VIOLATED)
    /\ (ObligationStageRan /\ RejectedWith(R012_CONSENT_RULES_VIOLATED)) =>
          \E i \in 1..Len(Obs) :
              \/ parse_timestamp(Get(Obs[i], "expires_at")) = 0
              \/ OutlivesConsent(Obs[i])

\* an obligation from a DESIGNER to a SYSTEM with consent_required true that
\* expires after the consent
C8_Witness ==
    /\ ObligationStageRan
    /\ RejectedWith(R012_CONSENT_RULES_VIOLATED)
    /\ LET o == Obs[Len(Obs)]
       IN  /\ FirstToCheck(Len(Obs))
           /\ WellFormedObligation(o)
           /\ FromRole(o) = "DESIGNER" /\ ToRole(o) = "SYSTEM"
           /\ OutlivesConsent(o)

----------------------------------------------------------------------------
(* Properties of the ratio and symmetry stages.  With NU users and NB
   beneficiaries, MeanUser and MeanBen are the two means times NU * NB. *)

MeanUser == IUser(m, totals)
MeanBen == IBen(m, totals)

RoleSetEmpty == RoleIds(m, "USER") = {} \/ RoleIds(m, "BENEFICIARY") = {}

RatioStageRan == Len(ran) >= 11
RatioFailed == Returned /\ Len(ran) = 11 /\ RejectedWith(R009_INCONVENIENCE_RATIO_FAIL)

\* i_user / i_ben > 1.5, for i_ben # 0
RatioAboveHardFail ==
    \/ MeanBen > 0 /\ 2 * MeanUser > 3 * MeanBen
    \/ MeanBen < 0 /\ 2 * MeanUser < 3 * MeanBen

\* C9: the ratio stage fails exactly when a role set is empty, or i_ben is
\* zero and i_user is not (whatever its sign), or i_ben is not zero and
\* i_user / i_ben > 1.5.
C9_RatioRule ==
    RatioStageRan =>
        (RatioFailed <=>
            \/ RoleSetEmpty
            \/ MeanBen = 0 /\ MeanUser # 0
            \/ MeanBen # 0 /\ RatioAboveHardFail)

SymmetryStageRan == Len(ran) >= 12
SymmetryFailed == Returned /\ Len(ran) = 12 /\ RejectedWith(R010_SYMMETRY_TOLERANCE_FAIL)

MaxMean == IF MeanUser >= MeanBen THEN MeanUser ELSE MeanBen

\* |i_user - i_ben| / max(i_user, i_ben) > 0.15, for a maximum that is not zero
DeviationAboveTolerance ==
    \/ MaxMean > 0 /\ 100 * Abs(MeanUser - MeanBen) > 15 * MaxMean
    \/ MaxMean < 0 /\ 100 * Abs(MeanUser - MeanBen) < 15 * MaxMean

\* C10: the symmetry stage passes without computing a deviation only when
\* both means are zero; otherwise it fails exactly when the deviation
\* |i_user - i_ben| / max(i_user, i_ben) is above 0.15.
C10_SymmetryRule ==
    SymmetryStageRan =>
        /\ (~SymmetryFailed /\ MaxMean = 0) => (MeanUser = 0 /\ MeanBen = 0)
        /\ MaxMean # 0 => (SymmetryFailed <=> DeviationAboveTolerance)

----------------------------------------------------------------------------
(* Properties of the alignment stage *)

DeclaredUsers == m.d["system"].d["declared_user_entities"].items
DeclaredBeneficiaries == m.d["system"].d["declared_beneficiary_entities"].items

\* every identifier of either list occurs in the other one
SameIdentifiers ==
    /\ \A i \in 1..Len(DeclaredUsers) :
           \E j \in 1..Len(DeclaredBeneficiaries) : DeclaredUsers[i] = DeclaredBeneficiaries[j]
    /\ \A j \in 1..Len(DeclaredBeneficiaries) :
           \E i \in 1..Len(DeclaredUsers) : DeclaredUsers[i] = DeclaredBeneficiaries[j]

AlignmentStageRan == Len(ran) >= 5
AlignmentFailed == Returned /\ Len(ran) = 5

\* C11: once the alignment stage has run, it has failed exactly when some
\* identifier of one declared list does not occur in the other, whatever the
\* order and the repetitions in the lists; its failure is reported as
\* USER_BENEFICIARY_MISMATCH.
C11_AlignmentSetEquality ==
    AlignmentStageRan =>
        /\ AlignmentFailed <=> ~SameIdentifiers
        /\ AlignmentFailed => RejectedWith(R001_USER_BENEFICIARY_MISMATCH)

\* two lists of different lengths, in different orders, pass the stage
C11_Witness ==
    /\ Len(ran) > 5
    /\ DeclaredUsers = << Str("u1"), Str("b1") >>
    /\ DeclaredBeneficiaries = << Str("b1"), Str("u1"), Str("b1") >>

----------------------------------------------------------------------------
(* Properties of the weight stage *)

Weights == m.d["inconvenience"].d["weights"]
Dimensions == m.d["inconvenience"].d["model"].d["dimensions"].items

WeightsStageRan == Len(ran) >= 8
WeightsFailed == Returned /\ Len(ran) = 8

\* a number of the document, not negative
NumericNonNegative(v) == v.ty = "num" /\ v.n >= 0

\* the mapping is not empty, every value is a number >= 0, the values sum to
\* 1 and the keys are exactly the declared dimensions
WeightsValid ==
    /\ DOMAIN Weights.d # {}
    /\ \A k \in DOMAIN Weights.d : NumericNonNegative(Weights.d[k])
    /\ SumWeights(Weights, DOMAIN Weights.d) = Scale
    /\ { Str(k) : k \in DOMAIN Weights.d } = { Dimensions[i] : i \in 1..Len(Dimensions) }

\* C12: once the weight stage has run, it has failed exactly when the weight
\* mapping is empty, or has a value that is not a number >= 0, or does not sum
\* to 1, or has keys other than exactly the declared dimensions; its failure
\* is reported as WEIGHTS_INVALID.
C12_WeightRule ==
    WeightsStageRan =>
        /\ WeightsFailed <=> ~WeightsValid
        /\ WeightsFailed => RejectedWith(R007_WEIGHTS_INVALID)

----------------------------------------------------------------------------
(* Properties of the referential-integrity stage.  The stage looks at the
   obligation records in order and then at the burden records in order. *)

ReferentialStageRan == Len(ran) >= 4
ReferentialFailed == Returned /\ Len(ran) = 4

\* the identifier fields of the records, in the order the stage looks at them
ReferenceFields ==
    [ i \in 1..Len(Obs) |-> [rec |-> Obs[i], keys |-> {"from", "to"}] ]
    \o [ i \in 1..Len(m.d["inconvenience"].d["expected"].items) |->
           [rec |-> m.d["inconvenience"].d["expected"].items[i], keys |-> {"entity"}] ]

\* not a mapping, or an identifier field is missing or is not a string
MalformedRecord(f) ==
    \/ ~IsDict(f.rec)
    \/ \E k \in f.keys : ~Has(f.rec, k) \/ ~IsStr(f.rec.d[k])

\* well-formed, with an identifier that is not in the entity index
UnresolvedRecord(f) ==
    /\ ~MalformedRecord(f)
    /\ \E k \in f.keys : f.rec.d[k].s \notin DOMAIN entity_index

\* the records before the i-th are well-formed and resolve
FirstReferenceViolation(i) ==
    \A j \in 1..(i - 1) : ~MalformedRecord(ReferenceFields[j]) /\ ~UnresolvedRecord(ReferenceFields[j])

\* C13: once the referential-integrity stage has run, a malformed obligation
\* or burden record (the first record in violation) has made it fail with
\* PARSE_FAILURE, and it has failed with ROLE_INTEGRITY_FAIL only when the
\* first record in violation is well-formed and has an identifier that does
\* not resolve in the entity index.
C13_MalformedIsParseFailure ==
    ReferentialStageRan =>
        /\ \A i \in 1..Len(ReferenceFields) :
               (FirstReferenceViolation(i) /\ MalformedRecord(ReferenceFields[i]))
               => (ReferentialFailed /\ RejectedWith(R000_PARSE_FAILURE))
        /\ (ReferentialFailed /\ RejectedWith(R017_ROLE_INTEGRITY_FAIL)) =>
               \E i \in 1..Len(ReferenceFields) :
                   FirstReferenceViolation(i) /\ UnresolvedRecord(ReferenceFields[i])

----------------------------------------------------------------------------
(* Properties of the immutability check *)

ImmutabilityChecked == pc = "checked"

\* the path is under standards/v<v>/
UnderVersion(p, v) ==
    Len(p) > 3 /\ p[1] = "standards/v" /\ p[2] = v /\ p[3] = "/"

\* the tag slml-v<v> exists and some file under standards/v<v>/ is not, in the
\* working tree, what it is in the tagged commit
ModifiedSinceRelease(v) ==
    /\ repo.tags[<<"slml-v", v>>].exists
    /\ \E p \in RepoPaths :
           UnderVersion(p, v) /\ repo.work[p] # repo.tags[<<"slml-v", v>>].tree[p]

\* C14: the immutability check returns 1 exactly when, for some release tag
\* slml-vX.Y that exists, a file under standards/vX.Y/ has changed since the
\* tagged commit, committed or not; otherwise it returns 0.
C14_ImmutableAfterRelease ==
    ImmutabilityChecked =>
        /\ outcome \in {0, 1}
        /\ outcome = 1 <=> \E v \in VersionNumbers : ModifiedSinceRelease(v)

----------------------------------------------------------------------------
(* Properties of the hash list *)

HashesVerified == pc = "verified"

\* the files other than the hash list are those of generation time, with the
\* same bytes
SameAsGenerated == \A path \in PathSet : tree[path] = baseline[path]

Reported(kind, path) ==
    \E i \in 1..Len(outcome.errors) : outcome.errors[i] = [kind |-> kind, path |-> path]

\* C15: verification of a directory whose hash list was generated succeeds
\* exactly when the files other than the hash list, and their bytes, are
\* those of generation time (so it succeeds right after generation); a file
\* removed since is reported MISSING, a file added EXTRA and a file changed
\* MISMATCH.
C15_VerifyAfterGenerate ==
    HashesVerified =>
        /\ (~outcome.died /\ outcome.ok) <=> SameAsGenerated
        /\ ~outcome.died
        /\ \A path \in PathSet :
               /\ (baseline[path].exists /\ ~tree[path].exists) => Reported("MISSING", path)
               /\ (~baseline[path].exists /\ tree[path].exists) => Reported("EXTRA", path)
               /\ (baseline[path].exists /\ tree[path].exists /\ baseline[path] # tree[path])
                  => Reported("MISMATCH", path)

----------------------------------------------------------------------------
(* The ratio stage against the symmetry stage, as functions of the same
   manifest and totals *)

RatioPasses == check_corruption_ratio(m, totals) = Pass
SymmetryPasses == check_symmetry_tolerance(m, totals) = Pass
NonNegativeMeans == MeanUser >= 0 /\ MeanBen >= 0

\* C16: with both role sets non-empty and both means non-negative, a manifest
\* and totals that pass the symmetry check pass the ratio check too, whatever
\* stage validate is at; so a run that the ratio stage rejects is one the
\* symmetry check rejects as well.
C16_SymmetryImpliesRatio ==
    (RatioStageRan /\ NonNegativeMeans) =>
        /\ ~RoleSetEmpty => (SymmetryPasses => RatioPasses)
        /\ RatioFailed => ~SymmetryPasses

\* the symmetry stage ran and passed on two unequal positive means over more
\* than one user
C16_Witness ==
    /\ SymmetryStageRan /\ ~SymmetryFailed
    /\ ~RoleSetEmpty
    /\ Cardinality(RoleIds(m, "USER")) > 1
    /\ MeanBen > 0 /\ MeanUser # MeanBen
    /\ SymmetryPasses /\ RatioPasses

====
